---- MODULE Spec2Model ----
(***************************************************************************)
(* FrenchTaxCalculator (app/services/tax_calculator.py) as a state machine. *)
(*                                                                         *)
(* Amounts are Python floats in the source.  Here an amount is an integer   *)
(* number of euro cents, a rate is an integer number of thousandths, and a  *)
(* product amount * rate is rounded down to the cent.  A quotient that the  *)
(* source returns as a ratio (an effective rate) is kept exact, as the pair *)
(* [num, den].  float('inf') is the sentinel Inf, larger than any amount.   *)
(*                                                                         *)
(* The calculator holds its rate table in instance fields.  Its methods are *)
(* pure functions of their arguments and that table: a behaviour is one     *)
(* call (op, args), drawn by Init, and the action of that method, which     *)
(* records what it returned (ret) or raised (raised).                       *)
(*                                                                         *)
(* SpecSeq makes several calls in a row on one calculator, and SpecConc     *)
(* runs calls of several threads on one calculator, interleaved.            *)
(***************************************************************************)
EXTENDS Integers, Sequences, FiniteSets, TLC

VARIABLES
    social_charges_rates,   \* self.social_charges_rates
    corporate_tax_rates,    \* self.corporate_tax_rates
    income_tax_brackets,    \* self.income_tax_brackets
    vat_rates,              \* self.vat_rates
    smic_annual,            \* self.smic_annual
    pass_annual,            \* self.pass_annual
    op,                     \* the method called
    args,                   \* its arguments
    pc,                     \* "call" before the method has run, "return" after
    ret,                    \* the value it returned
    raised,                 \* the exception it raised, "none" when it returned
    history,                \* the calls that have ended on this calculator
    thread,                 \* the call of each thread: its frame and position
    tax_calculation,        \* the rows of table tax_calculation
    company,                \* the rows of table company
    next_id,                \* the next primary key of tax_calculation
    utcnow,                 \* datetime.utcnow(), counted in requests served
    request,                \* the request the API served last
    response                \* and the answer it gave

rateTable == <<social_charges_rates, corporate_tax_rates, income_tax_brackets,
               vat_rates, smic_annual, pass_annual>>
storage == <<tax_calculation, company, next_id, utcnow, request, response>>
vars == <<social_charges_rates, corporate_tax_rates, income_tax_brackets,
          vat_rates, smic_annual, pass_annual, op, args, pc, ret, raised,
          history, thread, tax_calculation, company, next_id, utcnow,
          request, response>>

----------------------------------------------------------------------------
(* Numbers *)

\* An amount of whole euros, in cents.
Euros(e) == e * 100

\* float('inf'): above every amount of the model.
Inf == 2147483647

\* settings.SMIC_HOURLY (11.52 euros) and settings.PASS_ANNUAL (43992 euros), in cents.
SMIC_HOURLY == 1152
PASS_ANNUAL == 4399200

\* Python's min and max on two numbers.
Min(a, b) == IF a <= b THEN a ELSE b
Max(a, b) == IF a >= b THEN a ELSE b

\* amount * rate, rate in thousandths, rounded down to the cent.  Written so
\* that no intermediate product exceeds the result by more than a factor 1000.
Mul(x, rate) == (x \div 1000) * rate + (((x % 1000) * rate) \div 1000)

\* amount / n for a non-zero whole number n, rounded down to the cent.
Quot(a, n) == IF n > 0 THEN a \div n ELSE (0 - a) \div (0 - n)

\* a / b kept as an exact ratio, and the literal 0 of the same type.
PyDiv(a, b) == [num |-> a, den |-> b]
PyZero == [num |-> 0, den |-> 1]

\* What ret holds when the call raised.
NoValue == "no value"

----------------------------------------------------------------------------
(* The rate table set by __init__ *)

InitSocialChargesRates ==
    [salary    |-> [employer |-> 420, employee |-> 220],
     dividends |-> [social |-> 172, pfu |-> 128]]

InitCorporateTaxRates == << <<Euros(42500), 150>>, <<Inf, 250>> >>

InitIncomeTaxBrackets ==
    << <<Euros(11294), 0>>, <<Euros(28797), 110>>, <<Euros(82341), 300>>,
       <<Euros(177106), 410>>, <<Inf, 450>> >>

InitVatRates ==
    [standard |-> 200, intermediate |-> 100, reduced |-> 55, super_reduced |-> 21]

----------------------------------------------------------------------------
(* The methods *)

\* Mutant of calculate_social_charges_on_salary: the net salary and the cost
\* to the company take each other's charges.
social_charges_swapped(gross_salary) ==
    LET employer_charges == Mul(gross_salary, social_charges_rates.salary.employer)
        employee_charges == Mul(gross_salary, social_charges_rates.salary.employee)
    IN  [gross_salary          |-> gross_salary,
         employer_charges      |-> employer_charges,
         employee_charges      |-> employee_charges,
         total_social_charges  |-> employer_charges + employee_charges,
         net_salary            |-> gross_salary - employer_charges,
         total_cost_to_company |-> gross_salary + employee_charges]

calculate_social_charges_on_salary(gross_salary) ==
    LET employer_charges == Mul(gross_salary, social_charges_rates.salary.employer)
        employee_charges == Mul(gross_salary, social_charges_rates.salary.employee)
        net_salary == gross_salary - employee_charges
        total_cost == gross_salary + employer_charges
    IN  [gross_salary          |-> gross_salary,
         employer_charges      |-> employer_charges,
         employee_charges      |-> employee_charges,
         total_social_charges  |-> employer_charges + employee_charges,
         net_salary            |-> net_salary,
         total_cost_to_company |-> total_cost]

\* The for loop of calculate_corporate_tax from bracket i on.
RECURSIVE CorporateTaxWalk(_, _, _, _, _)
CorporateTaxWalk(rates, i, profit_before_tax, tax, remaining_profit) ==
    IF i > Len(rates) \/ remaining_profit <= 0
    THEN tax
    ELSE LET threshold == rates[i][1]
             rate == rates[i][2]
             taxable_amount == Min(remaining_profit, threshold)
             remaining == IF threshold = rates[1][1]
                          THEN (IF profit_before_tax > threshold
                                THEN profit_before_tax - threshold ELSE 0)
                          ELSE remaining_profit - taxable_amount
         IN  CorporateTaxWalk(rates, i + 1, profit_before_tax,
                              tax + Mul(taxable_amount, rate), remaining)

\* Mutant of calculate_corporate_tax: a loss is taxed too, at the first rate.
corporate_tax_of_loss(profit_before_tax) ==
    IF profit_before_tax <= 0
    THEN Mul(profit_before_tax, corporate_tax_rates[1][2])
    ELSE CorporateTaxWalk(corporate_tax_rates, 1, profit_before_tax, 0,
                          profit_before_tax)

\* Mutant of calculate_corporate_tax: the whole profit taxed at the rate of
\* the bracket it falls in.
corporate_tax_flat(profit_before_tax) ==
    IF profit_before_tax <= 0
    THEN 0
    ELSE IF profit_before_tax <= corporate_tax_rates[1][1]
         THEN Mul(profit_before_tax, corporate_tax_rates[1][2])
         ELSE Mul(profit_before_tax, corporate_tax_rates[2][2])

calculate_corporate_tax(profit_before_tax) ==
    IF profit_before_tax <= 0
    THEN 0
    ELSE CorporateTaxWalk(corporate_tax_rates, 1, profit_before_tax, 0,
                          profit_before_tax)

\* Mutant of IncomeTaxWalk: a bracket passed in full is taxed on its upper
\* bound, not on its width.
RECURSIVE IncomeTaxWalkUpperBound(_, _, _, _)
IncomeTaxWalkUpperBound(brackets, i, income_per_part, tax_per_part) ==
    IF i > Len(brackets)
    THEN tax_per_part
    ELSE LET threshold == brackets[i][1]
             rate == brackets[i][2]
             prev_threshold == IF i = 1 THEN 0 ELSE brackets[i - 1][1]
         IN  IF income_per_part <= threshold
             THEN tax_per_part + Mul(income_per_part - prev_threshold, rate)
             ELSE IncomeTaxWalkUpperBound(brackets, i + 1, income_per_part,
                                          tax_per_part + Mul(threshold, rate))

\* The for loop of calculate_income_tax from bracket i on.
RECURSIVE IncomeTaxWalk(_, _, _, _)
IncomeTaxWalk(brackets, i, income_per_part, tax_per_part) ==
    IF i > Len(brackets)
    THEN tax_per_part
    ELSE LET threshold == brackets[i][1]
             rate == brackets[i][2]
             prev_threshold == IF i = 1 THEN 0 ELSE brackets[i - 1][1]
         IN  IF income_per_part <= threshold
             THEN tax_per_part + Mul(income_per_part - prev_threshold, rate)
             ELSE IncomeTaxWalk(brackets, i + 1, income_per_part,
                                tax_per_part + Mul(threshold - prev_threshold, rate))

\* calculate_income_tax raises ZeroDivisionError exactly here.
income_tax_raises(taxable_income, parts) == taxable_income > 0 /\ parts = 0

calculate_income_tax(taxable_income, parts) ==
    IF taxable_income <= 0
    THEN 0
    ELSE LET income_per_part == Quot(taxable_income, parts)
         IN  IncomeTaxWalk(income_tax_brackets, 1, income_per_part, 0) * parts

\* Mutant of calculate_dividends_taxation: the flat tax left out of the total.
dividends_taxation_no_pfu(dividends) ==
    IF dividends <= 0
    THEN [dividends      |-> 0,
          social_charges |-> 0,
          income_tax     |-> 0,
          total_tax      |-> 0,
          net_dividends  |-> 0]
    ELSE LET social_charges == Mul(dividends, social_charges_rates.dividends.social)
             income_tax == Mul(dividends, social_charges_rates.dividends.pfu)
         IN  [dividends      |-> dividends,
              social_charges |-> social_charges,
              income_tax     |-> income_tax,
              total_tax      |-> social_charges,
              net_dividends  |-> dividends - social_charges,
              effective_rate |-> PyDiv(social_charges, dividends)]

calculate_dividends_taxation(dividends) ==
    IF dividends <= 0
    THEN [dividends      |-> 0,
          social_charges |-> 0,
          income_tax     |-> 0,
          total_tax      |-> 0,
          net_dividends  |-> 0]
    ELSE LET social_charges == Mul(dividends, social_charges_rates.dividends.social)
             income_tax == Mul(dividends, social_charges_rates.dividends.pfu)
             total_tax == social_charges + income_tax
             net_dividends == dividends - total_tax
         IN  [dividends      |-> dividends,
              social_charges |-> social_charges,
              income_tax     |-> income_tax,
              total_tax      |-> total_tax,
              net_dividends  |-> net_dividends,
              effective_rate |-> IF dividends > 0
                                 THEN PyDiv(total_tax, dividends) ELSE PyZero]

\* Mutant of calculate_vat: a VAT credit is returned as a negative amount to pay.
vat_unclamped(revenue, expenses, vat_rate) ==
    LET vat_collected == Mul(revenue, vat_rate)
        vat_deductible == Mul(expenses, vat_rate)
    IN  [vat_collected  |-> vat_collected,
         vat_deductible |-> vat_deductible,
         vat_to_pay     |-> vat_collected - vat_deductible,
         vat_rate       |-> vat_rate]

calculate_vat(revenue, expenses, vat_rate) ==
    LET vat_collected == Mul(revenue, vat_rate)
        vat_deductible == Mul(expenses, vat_rate)
        vat_to_pay == Max(0, vat_collected - vat_deductible)
    IN  [vat_collected  |-> vat_collected,
         vat_deductible |-> vat_deductible,
         vat_to_pay     |-> vat_to_pay,
         vat_rate       |-> vat_rate]

\* Mutant of ProfitBeforeTax: the expenses are not deducted.
ProfitBeforeTaxNoExpenses(revenue, expenses, total_salary_cost) ==
    revenue - total_salary_cost

\* profit_before_tax of calculate_complete_taxation and optimize_remuneration.
ProfitBeforeTax(revenue, expenses, total_salary_cost) ==
    revenue - expenses - total_salary_cost

\* Mutant of ActualDividends: the requested dividends, never capped.
ActualDividendsUncapped(dividends, profit_after_tax) == dividends

\* actual_dividends: dividends cannot exceed profit after tax.
ActualDividends(dividends, profit_after_tax) ==
    Min(dividends, Max(0, profit_after_tax))

\* Mutant of TaxableSalary: the 10% deduction forgotten.
TaxableSalaryNoDeduction(net_salary) == net_salary

\* taxable_salary: the net salary after the 10% deduction.
TaxableSalary(net_salary) == Mul(net_salary, 900)

\* Mutant of TotalTaxes: a total that keeps count of the calls made before.
TotalTaxesDrifting(salary_charges, corporate_tax, dividend_tax, income_tax_salary, vat) ==
    salary_charges.total_social_charges + corporate_tax
    + dividend_tax.total_tax + income_tax_salary + vat.vat_to_pay + Len(history)

\* Mutant of TotalTaxes: the taxes on the dividends are counted twice.
TotalTaxesDividendsTwice(salary_charges, corporate_tax, dividend_tax, income_tax_salary, vat) ==
    salary_charges.total_social_charges + corporate_tax
    + dividend_tax.total_tax + dividend_tax.total_tax + income_tax_salary
    + vat.vat_to_pay

\* Mutant of TotalTaxes: the employer charges left out of the total.
TotalTaxesNoEmployer(salary_charges, corporate_tax, dividend_tax, income_tax_salary, vat) ==
    salary_charges.employee_charges + corporate_tax
    + dividend_tax.total_tax + income_tax_salary + vat.vat_to_pay

\* total_taxes of calculate_complete_taxation.
TotalTaxes(salary_charges, corporate_tax, dividend_tax, income_tax_salary, vat) ==
    salary_charges.total_social_charges + corporate_tax
    + dividend_tax.total_tax + income_tax_salary + vat.vat_to_pay

\* Mutant of NetIncome: the dividend taxes are deducted from the net salary,
\* and the dividends are not added.
NetIncomeWithoutDividends(salary_charges, income_tax_salary, dividend_tax) ==
    salary_charges.net_salary - income_tax_salary - dividend_tax.total_tax

\* net_income of calculate_complete_taxation.
NetIncome(salary_charges, income_tax_salary, dividend_tax) ==
    salary_charges.net_salary - income_tax_salary + dividend_tax.net_dividends

\* Mutant of EffectiveTaxRate: the guard lets a revenue of 0 through.
EffectiveTaxRateZeroRevenue(total_taxes, revenue) ==
    IF revenue >= 0 THEN PyDiv(total_taxes, revenue) ELSE PyZero

\* effective_tax_rate of calculate_complete_taxation.
EffectiveTaxRate(total_taxes, revenue) ==
    IF revenue > 0 THEN PyDiv(total_taxes, revenue) ELSE PyZero

calculate_complete_taxation(gross_salary, dividends, revenue, expenses, vat_rate) ==
    LET salary_charges == calculate_social_charges_on_salary(gross_salary)
        total_salary_cost == salary_charges.total_cost_to_company
        profit_before_tax == ProfitBeforeTax(revenue, expenses, total_salary_cost)
        corporate_tax == calculate_corporate_tax(profit_before_tax)
        profit_after_tax == profit_before_tax - corporate_tax
        actual_dividends == ActualDividends(dividends, profit_after_tax)
        dividend_tax == calculate_dividends_taxation(actual_dividends)
        taxable_salary == TaxableSalary(salary_charges.net_salary)
        income_tax_salary == calculate_income_tax(taxable_salary, 1)
        vat == calculate_vat(revenue, expenses, vat_rate)
        total_social_charges ==
            salary_charges.total_social_charges + dividend_tax.social_charges
        total_income_tax == income_tax_salary + dividend_tax.income_tax
        total_taxes == TotalTaxes(salary_charges, corporate_tax, dividend_tax,
                                  income_tax_salary, vat)
        net_income == NetIncome(salary_charges, income_tax_salary, dividend_tax)
        effective_tax_rate == EffectiveTaxRate(total_taxes, revenue)
    IN  [input      |-> [gross_salary |-> gross_salary,
                         dividends    |-> dividends,
                         revenue      |-> revenue,
                         expenses     |-> expenses],
         salary     |-> salary_charges,
         corporate  |-> [profit_before_tax       |-> profit_before_tax,
                         corporate_tax           |-> corporate_tax,
                         profit_after_tax        |-> profit_after_tax,
                         available_for_dividends |-> Max(0, profit_after_tax)],
         dividends  |-> dividend_tax,
         income_tax |-> [taxable_salary |-> taxable_salary,
                         tax_on_salary  |-> income_tax_salary,
                         total          |-> total_income_tax],
         vat        |-> vat,
         summary    |-> [total_social_charges |-> total_social_charges,
                         total_corporate_tax  |-> corporate_tax,
                         total_income_tax     |-> total_income_tax,
                         total_vat            |-> vat.vat_to_pay,
                         total_taxes          |-> total_taxes,
                         net_income           |-> net_income,
                         effective_tax_rate   |-> effective_tax_rate]]

\* None, as the value of best_result before a sample is accepted.
None == [none |-> TRUE]

\* constraints.get(key, default), constraints being a dict.
Get(constraints, key, default) ==
    IF key \in DOMAIN constraints THEN constraints[key] ELSE default

\* abs.
Abs(x) == IF x >= 0 THEN x ELSE 0 - x

\* salary_steps of optimize_remuneration.
salary_steps == 20

\* Mutant of TestSalary: the range divided into one step too many.
TestSalaryShort(min_salary, max_salary, i) ==
    min_salary + Quot((max_salary - min_salary) * i, salary_steps + 1)

\* test_salary of sample i.
TestSalary(min_salary, max_salary, i) ==
    min_salary + Quot((max_salary - min_salary) * i, salary_steps)

\* Mutant of AvailableForDividends: the corporate tax is not deducted.
AvailableBeforeTax(profit_before_tax, corporate_tax) == profit_before_tax

\* available_for_dividends of optimize_remuneration.
AvailableForDividends(profit_before_tax, corporate_tax) ==
    profit_before_tax - corporate_tax

\* Mutant of DividendSearch: the search narrows to 1, not to 100.
RECURSIVE DividendSearchTo1(_, _, _, _, _, _, _)
DividendSearchTo1(low, high, steps, test_salary, target_net_income, revenue, expenses) ==
    IF high - low > Euros(1)
    THEN IF calculate_complete_taxation(
                test_salary, Quot(low + high, 2), revenue, expenses, 200
            ).summary.net_income < target_net_income
         THEN DividendSearchTo1(Quot(low + high, 2), high, steps + 1, test_salary,
                                target_net_income, revenue, expenses)
         ELSE DividendSearchTo1(low, Quot(low + high, 2), steps + 1, test_salary,
                                target_net_income, revenue, expenses)
    ELSE <<low, high, steps>>

\* Mutant of DividendSearch: the comparison with the target is reversed.
RECURSIVE DividendSearchReversed(_, _, _, _, _, _, _)
DividendSearchReversed(low, high, steps, test_salary, target_net_income, revenue, expenses) ==
    IF high - low > Euros(100)
    THEN IF calculate_complete_taxation(
                test_salary, Quot(low + high, 2), revenue, expenses, 200
            ).summary.net_income > target_net_income
         THEN DividendSearchReversed(Quot(low + high, 2), high, steps + 1,
                                     test_salary, target_net_income, revenue,
                                     expenses)
         ELSE DividendSearchReversed(low, Quot(low + high, 2), steps + 1,
                                     test_salary, target_net_income, revenue,
                                     expenses)
    ELSE <<low, high, steps>>

\* The while loop of optimize_remuneration: the binary search of the
\* dividends between low and high, mid being (low + high) / 2.  steps, which
\* the code does not hold, counts the times the body has run; the search
\* yields the final <<low, high, steps>>.
RECURSIVE DividendSearch(_, _, _, _, _, _, _)
DividendSearch(low, high, steps, test_salary, target_net_income, revenue, expenses) ==
    IF high - low > Euros(100)
    THEN IF calculate_complete_taxation(
                test_salary, Quot(low + high, 2), revenue, expenses, 200
            ).summary.net_income < target_net_income
         THEN DividendSearch(Quot(low + high, 2), high, steps + 1, test_salary,
                             target_net_income, revenue, expenses)
         ELSE DividendSearch(low, Quot(low + high, 2), steps + 1, test_salary,
                             target_net_income, revenue, expenses)
    ELSE <<low, high, steps>>

\* Mutant of IsBetter: the taxes are not compared, the latest sample within
\* the tolerance is kept.
IsBetterLatest(result, target_net_income, min_total_tax) ==
    Abs(result.summary.net_income - target_net_income) < Euros(1000)

\* Mutant of IsBetter: the distance to the target is not looked at.
IsBetterAnyDistance(result, target_net_income, min_total_tax) ==
    result.summary.total_taxes < min_total_tax

\* "Check if this is better": within 1000 of the target and less taxed than
\* the best so far.
IsBetter(result, target_net_income, min_total_tax) ==
    /\ Abs(result.summary.net_income - target_net_income) < Euros(1000)
    /\ result.summary.total_taxes < min_total_tax

\* The local variables of optimize_remuneration before its for loop; sampled
\* and searches are not among them: they record the test_salary of every
\* iteration run and, of every binary search run, the profit it searched,
\* the bounds it ended on and the number of its steps.
InitialBest(min_salary) ==
    [best_salary    |-> min_salary,
     best_dividends |-> 0,
     min_total_tax  |-> Inf,
     best_result    |-> None,
     sampled        |-> << >>,
     searches       |-> << >>]

\* Mutant of OptimizeIteration: a sample without profit is not skipped.
OptimizeIterationNoSkip(best, i, target_net_income, revenue, expenses, min_salary, max_salary) ==
    LET test_salary == TestSalary(min_salary, max_salary, i)
        salary_result == calculate_social_charges_on_salary(test_salary)
        profit_before_tax ==
            ProfitBeforeTax(revenue, expenses, salary_result.total_cost_to_company)
        corporate_tax == calculate_corporate_tax(profit_before_tax)
        available_for_dividends ==
            AvailableForDividends(profit_before_tax, corporate_tax)
        bounds == DividendSearch(0, available_for_dividends, 0, test_salary,
                                 target_net_income, revenue, expenses)
        test_dividends == Quot(bounds[1] + bounds[2], 2)
        result == calculate_complete_taxation(test_salary, test_dividends,
                                              revenue, expenses, 200)
        seen == [best EXCEPT !.sampled = Append(@, test_salary)]
        searched ==
            [seen EXCEPT !.searches =
                Append(@, [available |-> available_for_dividends,
                           low |-> bounds[1], high |-> bounds[2],
                           steps |-> bounds[3]])]
    IN  IF IsBetter(result, target_net_income, best.min_total_tax)
        THEN [searched EXCEPT
                  !.best_salary = test_salary,
                  !.best_dividends = test_dividends,
                  !.min_total_tax = result.summary.total_taxes,
                  !.best_result = result]
        ELSE searched

\* One iteration of the for loop of optimize_remuneration: sample i, from the
\* local variables best to their values after it.
OptimizeIteration(best, i, target_net_income, revenue, expenses, min_salary, max_salary) ==
    LET test_salary == TestSalary(min_salary, max_salary, i)
        salary_result == calculate_social_charges_on_salary(test_salary)
        profit_before_tax ==
            ProfitBeforeTax(revenue, expenses, salary_result.total_cost_to_company)
        corporate_tax == calculate_corporate_tax(profit_before_tax)
        available_for_dividends ==
            AvailableForDividends(profit_before_tax, corporate_tax)
        bounds == DividendSearch(0, available_for_dividends, 0, test_salary,
                                 target_net_income, revenue, expenses)
        test_dividends == Quot(bounds[1] + bounds[2], 2)
        result == calculate_complete_taxation(test_salary, test_dividends,
                                              revenue, expenses, 200)
        seen == [best EXCEPT !.sampled = Append(@, test_salary)]
        searched ==
            [seen EXCEPT !.searches =
                Append(@, [available |-> available_for_dividends,
                           low |-> bounds[1], high |-> bounds[2],
                           steps |-> bounds[3]])]
    IN  IF profit_before_tax <= 0
        THEN seen
        ELSE IF available_for_dividends <= 0
        THEN seen
        ELSE IF IsBetter(result, target_net_income, best.min_total_tax)
        THEN [searched EXCEPT
                  !.best_salary = test_salary,
                  !.best_dividends = test_dividends,
                  !.min_total_tax = result.summary.total_taxes,
                  !.best_result = result]
        ELSE searched

\* min_salary and max_salary of optimize_remuneration.
MinSalary(constraints) == Get(constraints, "min_salary", smic_annual)
MaxSalary(constraints, revenue) == Get(constraints, "max_salary", Mul(revenue, 800))

\* The parameters and local variables of optimize_remuneration when it
\* reaches its for loop.
OptimizeFrame(target_net_income, revenue, expenses, constraints) ==
    [target_net_income |-> target_net_income,
     revenue           |-> revenue,
     expenses          |-> expenses,
     min_salary        |-> MinSalary(constraints),
     max_salary        |-> MaxSalary(constraints, revenue),
     best              |-> InitialBest(MinSalary(constraints)),
     i                 |-> 0]

\* The body of the for loop run once on the variables local, and i advanced.
LoopStep(local) ==
    [local EXCEPT
        !.best = OptimizeIteration(local.best, local.i, local.target_net_income,
                                   local.revenue, local.expenses,
                                   local.min_salary, local.max_salary),
        !.i = local.i + 1]

\* The for loop of optimize_remuneration, from the variables local on.
RECURSIVE OptimizeLoop(_)
OptimizeLoop(local) ==
    IF local.i > salary_steps THEN local ELSE OptimizeLoop(LoopStep(local))

\* What optimize_remuneration does after its for loop: the fallback when no
\* sample was accepted, and the result it returns.
OptimizeResult(best, min_salary, revenue, expenses) ==
    LET final == IF best.best_result = None
                 THEN [best EXCEPT
                           !.best_salary = min_salary,
                           !.best_dividends = 0,
                           !.best_result = calculate_complete_taxation(
                                               min_salary, 0, revenue, expenses, 200)]
                 ELSE best
    IN  [optimal_gross_salary |-> final.best_salary,
         optimal_dividends    |-> final.best_dividends,
         net_income_achieved  |-> final.best_result.summary.net_income,
         total_tax_burden     |-> final.best_result.summary.total_taxes,
         effective_tax_rate   |-> final.best_result.summary.effective_tax_rate,
         breakdown            |-> final.best_result.summary,
         full_calculation     |-> final.best_result]

optimize_remuneration(target_net_income, revenue, expenses, constraints) ==
    LET local == OptimizeLoop(OptimizeFrame(target_net_income, revenue,
                                            expenses, constraints))
    IN  OptimizeResult(local.best, local.min_salary, local.revenue, local.expenses)

\* effective_rate > 0.45, the rate being a ratio of positive denominator.
RateAbove45(rate) == rate.num * 20 > 9 * rate.den

\* Mutant of HighVat: the threshold is the standard rate itself.
HighVatAt20(vat_to_pay, revenue) == vat_to_pay > Mul(revenue, 200)

\* vat_to_pay > revenue * 0.15.
HighVat(vat_to_pay, revenue) == vat_to_pay > Mul(revenue, 150)

\* generate_recommendations: the messages, each named by what it flags, in
\* the order they are appended.
generate_recommendations(calculation_result) ==
    LET salary == calculation_result.input.gross_salary
        dividends == calculation_result.input.dividends
        effective_rate == calculation_result.summary.effective_tax_rate
        r1 == IF salary < smic_annual
              THEN <<"salary below SMIC">>
              ELSE IF salary > pass_annual * 4
              THEN <<"salary above 4 PASS">>
              ELSE << >>
        r2 == IF dividends > 0 /\ salary < pass_annual
              THEN Append(r1, "raise salary to 1 PASS") ELSE r1
        r3 == IF RateAbove45(effective_rate)
              THEN Append(r2, "effective rate above 45%") ELSE r2
        r4 == IF "vat" \in DOMAIN calculation_result
              THEN IF HighVat(calculation_result.vat.vat_to_pay,
                              calculation_result.input.revenue)
                   THEN Append(r3, "high VAT") ELSE r3
              ELSE r3
        r5 == IF "corporate" \in DOMAIN calculation_result
              THEN LET available ==
                           Get(calculation_result.corporate,
                               "available_for_dividends", 0)
                   IN  IF available > dividends * 2
                       THEN Append(r4, "undistributed profits") ELSE r4
              ELSE r4
    IN  r5


----------------------------------------------------------------------------
(* The arguments the calls are made with *)

\* Gross salaries: negative, none, and one inside each income-tax bracket
\* (the taxable salary is 0.702 x gross); 12345.67 is not a whole amount of
\* euros, so that its charges are rounded.
GrossSalaries ==
    {Euros(0 - 10000), Euros(0), Euros(12345) + 67, Euros(40000), Euros(60000),
     Euros(150000), Euros(260000)}

\* Requested dividends: negative, none, 2.50, below and above the profits of
\* the model.
DividendAmounts ==
    {Euros(0 - 500), Euros(0), 250, Euros(4250), Euros(10000), Euros(100000)}

Revenues == {Euros(0 - 1000), Euros(0), Euros(60000), Euros(150000), Euros(500000)}

ExpenseAmounts == {Euros(0), Euros(50000), Euros(55000), Euros(200000)}

\* VAT rates: the default 0.20, the reduced 0.055, 1, and one below 0.
VatRateArgs == {0 - 100, 55, 200, 1000}

\* Profits before tax: non-positive, inside the first bracket, on its upper
\* bound, one euro and one cent above it, and far above it.
Profits ==
    {Euros(0 - 5000), 0, 1, Euros(5000), Euros(42500) - 1, Euros(42500),
     Euros(42500) + 1, Euros(42501), Euros(43200), Euros(300000)}

\* Taxable incomes: non-positive, inside each bracket and on each bound.
TaxableIncomes ==
    {Euros(0 - 3000), 0, Euros(8000), Euros(11294), Euros(11295), Euros(20000),
     Euros(28797), Euros(50000), Euros(82341), Euros(82342), Euros(100000),
     Euros(177106), Euros(177107), Euros(250000), Euros(400000)}

\* Numbers of parts (quotient familial): whole numbers, also 0 and below.
PartsArgs == {0 - 1, 0, 1, 2, 3}

\* Target net incomes: within reach of the revenues below, and out of reach.
Targets == {Euros(20000), Euros(50000), Euros(51000), Euros(80000), Euros(500000)}

\* Revenues of the optimizer: 0.8 x 20000 is below the annual SMIC.
OptRevenues == {Euros(20000), Euros(120000), Euros(300000)}

OptExpenses == {Euros(0), Euros(30000)}

\* Constraints: none, one bound, both, min_salary above max_salary, and the
\* two equal, when the 21 samples are one salary.
ConstraintArgs ==
    {<< >>,
     [min_salary |-> Euros(30000)],
     [min_salary |-> Euros(25000), max_salary |-> Euros(25000)],
     [max_salary |-> Euros(60000)],
     [min_salary |-> Euros(0), max_salary |-> Euros(100000)],
     [min_salary |-> Euros(50000), max_salary |-> Euros(20000)]}

----------------------------------------------------------------------------
(* The state machine: one calculator, one call made on it *)

\* The calls: a method and its arguments.
Calls ==
    {<<"calculate_social_charges_on_salary", <<g>>>> : g \in GrossSalaries}
    \cup {<<"calculate_corporate_tax", <<p>>>> : p \in Profits}
    \cup {<<"calculate_income_tax", <<t, n>>>> : t \in TaxableIncomes, n \in PartsArgs}
    \cup {<<"calculate_dividends_taxation", <<d>>>> : d \in DividendAmounts}
    \cup {<<"calculate_vat", <<r, e, v>>>> :
              r \in Revenues, e \in ExpenseAmounts, v \in VatRateArgs}
    \cup {<<"calculate_complete_taxation", <<g, d, r, e, v>>>> :
              g \in GrossSalaries, d \in DividendAmounts, r \in Revenues,
              e \in ExpenseAmounts, v \in VatRateArgs}
    \cup {<<"optimize_remuneration", <<t, r, e, c>>>> :
              t \in Targets, r \in OptRevenues, e \in OptExpenses,
              c \in ConstraintArgs}
    \cup {<<"generate_recommendations", <<g, d, r, e>>>> :
              g \in GrossSalaries, d \in DividendAmounts, r \in Revenues,
              e \in ExpenseAmounts}

\* Before the API has served a request.
NoRequest == [endpoint |-> "none"]
NoResponse == [status_code |-> 0, body |-> "none"]

\* A calculator used without the API: no table, no request.
NoStorage ==
    /\ tax_calculation = {}
    /\ company = {}
    /\ next_id = 1
    /\ utcnow = 0
    /\ request = NoRequest
    /\ response = NoResponse

\* After FrenchTaxCalculator(): the rate table of __init__, and a call about
\* to be made.
Init ==
    /\ social_charges_rates = InitSocialChargesRates
    /\ corporate_tax_rates = InitCorporateTaxRates
    /\ income_tax_brackets = InitIncomeTaxBrackets
    /\ vat_rates = InitVatRates
    /\ smic_annual = SMIC_HOURLY * 35 * 52
    /\ pass_annual = PASS_ANNUAL
    /\ \E c \in Calls : op = c[1] /\ args = c[2]
    /\ pc = "call"
    /\ ret = NoValue
    /\ raised = "none"
    /\ history = << >>
    /\ thread = << >>
    /\ NoStorage

\* The call returns value.
Return(value) ==
    /\ pc' = "return"
    /\ ret' = value
    /\ raised' = "none"
    /\ history' = Append(history, [op |-> op, args |-> args,
                                   ret |-> value, raised |-> "none"])
    /\ UNCHANGED <<rateTable, op, args, thread, storage>>

\* The call raises exception.
Raise(exception) ==
    /\ pc' = "return"
    /\ ret' = NoValue
    /\ raised' = exception
    /\ history' = Append(history, [op |-> op, args |-> args,
                                   ret |-> NoValue, raised |-> exception])
    /\ UNCHANGED <<rateTable, op, args, thread, storage>>

CallSocialCharges ==
    /\ pc = "call" /\ op = "calculate_social_charges_on_salary"
    /\ Return(calculate_social_charges_on_salary(args[1]))

CallCorporateTax ==
    /\ pc = "call" /\ op = "calculate_corporate_tax"
    /\ Return(calculate_corporate_tax(args[1]))

CallIncomeTax ==
    /\ pc = "call" /\ op = "calculate_income_tax"
    /\ IF income_tax_raises(args[1], args[2])
       THEN Raise("ZeroDivisionError")
       ELSE Return(calculate_income_tax(args[1], args[2]))

CallDividendsTaxation ==
    /\ pc = "call" /\ op = "calculate_dividends_taxation"
    /\ Return(calculate_dividends_taxation(args[1]))

CallVat ==
    /\ pc = "call" /\ op = "calculate_vat"
    /\ Return(calculate_vat(args[1], args[2], args[3]))

CallCompleteTaxation ==
    /\ pc = "call" /\ op = "calculate_complete_taxation"
    /\ Return(calculate_complete_taxation(args[1], args[2], args[3], args[4], args[5]))

CallOptimize ==
    /\ pc = "call" /\ op = "optimize_remuneration"
    /\ Return(optimize_remuneration(args[1], args[2], args[3], args[4]))

\* generate_recommendations, called as the /calculate endpoint calls it: on
\* the result of calculate_complete_taxation for the request's amounts.
CallRecommendations ==
    /\ pc = "call" /\ op = "generate_recommendations"
    /\ Return(generate_recommendations(
                  calculate_complete_taxation(args[1], args[2], args[3], args[4], 200)))

Next ==
    \/ CallSocialCharges
    \/ CallCorporateTax
    \/ CallIncomeTax
    \/ CallDividendsTaxation
    \/ CallVat
    \/ CallCompleteTaxation
    \/ CallOptimize
    \/ CallRecommendations

Spec == Init /\ [][Next]_vars

----------------------------------------------------------------------------
(* Several calls in a row on one calculator *)

\* The number of calls made on the calculator.
MaxCalls == 3

\* The calls of a sequence: one of each method, and calculate_complete_taxation
\* with two sets of amounts.
SeqCalls ==
    {<<"calculate_social_charges_on_salary", <<Euros(40000)>>>>,
     <<"calculate_corporate_tax", <<Euros(50000)>>>>,
     <<"calculate_income_tax", <<Euros(30000), 0>>>>,
     <<"calculate_dividends_taxation", <<Euros(10000)>>>>,
     <<"calculate_vat", <<Euros(150000), Euros(50000), 200>>>>,
     <<"calculate_complete_taxation",
       <<Euros(40000), Euros(10000), Euros(150000), Euros(50000), 200>>>>,
     <<"calculate_complete_taxation",
       <<Euros(60000), Euros(0), Euros(60000), Euros(0), 55>>>>,
     <<"optimize_remuneration",
       <<Euros(10000), Euros(20000), Euros(0),
         [min_salary |-> Euros(0), max_salary |-> Euros(100000)]>>>>,
     <<"generate_recommendations",
       <<Euros(0), Euros(4250), Euros(150000), Euros(0)>>>>}

InitSeq ==
    /\ social_charges_rates = InitSocialChargesRates
    /\ corporate_tax_rates = InitCorporateTaxRates
    /\ income_tax_brackets = InitIncomeTaxBrackets
    /\ vat_rates = InitVatRates
    /\ smic_annual = SMIC_HOURLY * 35 * 52
    /\ pass_annual = PASS_ANNUAL
    /\ \E c \in SeqCalls : op = c[1] /\ args = c[2]
    /\ pc = "call"
    /\ ret = NoValue
    /\ raised = "none"
    /\ history = << >>
    /\ thread = << >>
    /\ NoStorage

\* The caller, holding the calculator, makes its next call.
NextCall ==
    /\ pc = "return"
    /\ Len(history) < MaxCalls
    /\ \E c \in SeqCalls : op' = c[1] /\ args' = c[2]
    /\ pc' = "call"
    /\ ret' = NoValue
    /\ raised' = "none"
    /\ UNCHANGED <<rateTable, history, thread, storage>>

NextSeq ==
    \/ CallSocialCharges
    \/ CallCorporateTax
    \/ CallIncomeTax
    \/ CallDividendsTaxation
    \/ CallVat
    \/ CallCompleteTaxation
    \/ CallOptimize
    \/ CallRecommendations
    \/ NextCall

SpecSeq == InitSeq /\ [][NextSeq]_vars

----------------------------------------------------------------------------
(* Calls of several threads on one calculator *)

\* The number of threads that share the calculator.
NumThreads == 2
Threads == 1..NumThreads

\* The calls a thread may make.
ConcCalls ==
    {<<"calculate_complete_taxation",
       <<Euros(40000), Euros(10000), Euros(150000), Euros(50000), 200>>>>,
     <<"calculate_complete_taxation",
       <<Euros(60000), Euros(0), Euros(60000), Euros(0), 55>>>>,
     <<"optimize_remuneration",
       <<Euros(10000), Euros(20000), Euros(0),
         [min_salary |-> Euros(0), max_salary |-> Euros(100000)]>>>>,
     <<"generate_recommendations",
       <<Euros(0), Euros(4250), Euros(150000), Euros(0)>>>>}

\* Each thread is about to make a call.  A thread is [op, args, pc, local,
\* ret, began_during]: local are the parameters and local variables of its
\* call, and began_during, which the code does not hold, are the threads that
\* were inside a call when this one began.
InitConc ==
    /\ social_charges_rates = InitSocialChargesRates
    /\ corporate_tax_rates = InitCorporateTaxRates
    /\ income_tax_brackets = InitIncomeTaxBrackets
    /\ vat_rates = InitVatRates
    /\ smic_annual = SMIC_HOURLY * 35 * 52
    /\ pass_annual = PASS_ANNUAL
    /\ thread \in [Threads -> {[op |-> c[1], args |-> c[2], pc |-> "call",
                                local |-> << >>, ret |-> NoValue,
                                began_during |-> {}] : c \in ConcCalls}]
    /\ op = "none"
    /\ args = << >>
    /\ pc = "threads"
    /\ ret = NoValue
    /\ raised = "none"
    /\ history = << >>
    /\ NoStorage

\* The threads inside a call.
InFlight == {u \in DOMAIN thread : thread[u].pc \notin {"call", "return"}}

\* Mutant of Bind: the frame is kept in the calculator, where the calls of a
\* method that are under way all read it.
BindShared(t, frame, position) ==
    thread' = [u \in Threads |->
                  IF u = t
                  THEN [thread[t] EXCEPT !.local = frame, !.pc = position,
                                         !.began_during = InFlight]
                  ELSE IF thread[u].op = thread[t].op /\ thread[u].pc = position
                  THEN [thread[u] EXCEPT !.local = frame]
                  ELSE thread[u]]

\* Thread t enters a method: its parameters and local variables are a frame
\* of its own.
Bind(t, frame, position) ==
    thread' = [thread EXCEPT ![t].local = frame, ![t].pc = position,
                             ![t].began_during = InFlight]

\* Thread t returns value.
ThreadReturn(t, value) ==
    thread' = [thread EXCEPT ![t].ret = value, ![t].pc = "return"]

ConcFrame == UNCHANGED <<rateTable, op, args, pc, ret, raised, history, storage>>

EnterComplete(t) ==
    /\ thread[t].pc = "call" /\ thread[t].op = "calculate_complete_taxation"
    /\ Bind(t, [gross_salary |-> thread[t].args[1],
                dividends    |-> thread[t].args[2],
                revenue      |-> thread[t].args[3],
                expenses     |-> thread[t].args[4],
                vat_rate     |-> thread[t].args[5]], "body")
    /\ ConcFrame

FinishComplete(t) ==
    /\ thread[t].pc = "body" /\ thread[t].op = "calculate_complete_taxation"
    /\ LET local == thread[t].local
       IN  ThreadReturn(t, calculate_complete_taxation(
                               local.gross_salary, local.dividends, local.revenue,
                               local.expenses, local.vat_rate))
    /\ ConcFrame

\* optimize_remuneration up to its for loop.
EnterOptimize(t) ==
    /\ thread[t].pc = "call" /\ thread[t].op = "optimize_remuneration"
    /\ Bind(t, OptimizeFrame(thread[t].args[1], thread[t].args[2],
                             thread[t].args[3], thread[t].args[4]), "loop")
    /\ ConcFrame

\* One iteration of the for loop.
OptimizeStep(t) ==
    /\ thread[t].pc = "loop" /\ thread[t].local.i <= salary_steps
    /\ thread' = [thread EXCEPT ![t].local = LoopStep(thread[t].local)]
    /\ ConcFrame

\* optimize_remuneration after its for loop.
FinishOptimize(t) ==
    /\ thread[t].pc = "loop" /\ thread[t].local.i > salary_steps
    /\ LET local == thread[t].local
       IN  ThreadReturn(t, OptimizeResult(local.best, local.min_salary,
                                          local.revenue, local.expenses))
    /\ ConcFrame

EnterRecommendations(t) ==
    /\ thread[t].pc = "call" /\ thread[t].op = "generate_recommendations"
    /\ Bind(t, [calculation_result |->
                    calculate_complete_taxation(
                        thread[t].args[1], thread[t].args[2],
                        thread[t].args[3], thread[t].args[4], 200)], "body")
    /\ ConcFrame

FinishRecommendations(t) ==
    /\ thread[t].pc = "body" /\ thread[t].op = "generate_recommendations"
    /\ ThreadReturn(t, generate_recommendations(thread[t].local.calculation_result))
    /\ ConcFrame

NextConc ==
    \E t \in Threads :
        \/ EnterComplete(t)
        \/ FinishComplete(t)
        \/ EnterOptimize(t)
        \/ OptimizeStep(t)
        \/ FinishOptimize(t)
        \/ EnterRecommendations(t)
        \/ FinishRecommendations(t)

SpecConc == InitConc /\ [][NextConc]_vars

----------------------------------------------------------------------------
(* calculate_corporate_tax on other rate tables *)

\* Corporate rate tables a yearly update may install: ascending upper bounds,
\* the last one float('inf'); of one, two, three and four brackets.
RateTables ==
    {InitCorporateTaxRates,
     <<<<Inf, 250>>>>,
     <<<<Euros(50000), 100>>, <<Inf, 300>>>>,
     <<<<Euros(42500), 150>>, <<Euros(100000), 250>>, <<Inf, 300>>>>,
     <<<<Euros(10000), 0>>, <<Euros(42500), 150>>, <<Inf, 250>>>>,
     <<<<Euros(20000), 100>>, <<Euros(60000), 200>>, <<Euros(150000), 300>>,
       <<Inf, 400>>>>}

\* Profits on both sides of every bound of those tables.
RateProfits ==
    {Euros(0 - 5000), 0, Euros(5000), Euros(10000), Euros(15000), Euros(42500),
     Euros(50000), Euros(60000), Euros(80000), Euros(100000), Euros(200000),
     Euros(300000)}

\* After FrenchTaxCalculator() and the installation of a corporate rate
\* table, calculate_corporate_tax about to be called.
InitRates ==
    /\ social_charges_rates = InitSocialChargesRates
    /\ corporate_tax_rates \in RateTables
    /\ income_tax_brackets = InitIncomeTaxBrackets
    /\ vat_rates = InitVatRates
    /\ smic_annual = SMIC_HOURLY * 35 * 52
    /\ pass_annual = PASS_ANNUAL
    /\ op = "calculate_corporate_tax"
    /\ \E p \in RateProfits : args = <<p>>
    /\ pc = "call"
    /\ ret = NoValue
    /\ raised = "none"
    /\ history = << >>
    /\ thread = << >>
    /\ NoStorage

NextRates == CallCorporateTax

SpecRates == InitRates /\ [][NextRates]_vars

----------------------------------------------------------------------------
(* The stored calculations: the endpoints of api_v1/endpoints/tax.py *)

\* An Optional value of a request, or a nullable column: Null is None, and
\* <<v>> is the value v.
Null == << >>

\* bool(value) of an Optional[int]: None and 0 are false.
Truthy(value) == value # Null /\ value[1] # 0

\* The number of requests the API serves.
MaxRequests == 3

\* The users that are logged in, by User.id.
Users == {1, 2}

\* Table company: every user has registered one company, whose id is the
\* user's own here.
Companies == {[id |-> u, user_id |-> u] : u \in Users}

\* db.query(Company).filter(Company.id == company_id,
\*                          Company.user_id == current_user.id).first()
CompanyOf(current_user, company_id) ==
    {c \in company : c.id = company_id[1] /\ c.user_id = current_user}

\* db.query(TaxCalculationModel).filter(TaxCalculationModel.id == calculation_id,
\*                          TaxCalculationModel.user_id == current_user.id).first()
CalculationOf(current_user, calculation_id) ==
    {c \in tax_calculation : c.id = calculation_id /\ c.user_id = current_user}

\* ForeignKey("company.id") of column company_id: NULL, or the id of a company.
ForeignKeyHolds(row) ==
    row.company_id = Null \/ \E c \in company : c.id = row.company_id[1]

\* The fields of schema TaxCalculationUpdate.
UpdateFields == {"scenario_name", "scenario_description", "status", "notes"}

\* Mutant of TaxCalculationUpdate: the schema takes every field of the body.
TaxCalculationUpdateAnyField(body) == body

\* TaxCalculationUpdate(**body).model_dump(exclude_unset=True): the fields of
\* the schema that the body sets; what else the body holds is ignored.
TaxCalculationUpdate(body) ==
    [field \in DOMAIN body \cap UpdateFields |-> body[field]]

\* TaxCalculationModel(...) of save_calculation once flushed: the columns the
\* handler sets, the primary key, and the defaults of created_at and
\* updated_at.  The columns no endpoint of this file writes after the insert
\* and no result feeds (calculation_type, tax_year, period_*, other_income,
\* cfe, cvae, the suggestions) are left out.
TaxCalculationModel(current_user, calculation, result, id, now) ==
    [id                      |-> id,
     user_id                 |-> current_user,
     company_id              |-> calculation.company_id,
     gross_salary            |-> calculation.gross_salary,
     net_salary              |-> result.salary.net_salary,
     dividends               |-> calculation.dividends,
     revenue                 |-> calculation.revenue,
     expenses                |-> calculation.expenses,
     profit_before_tax       |-> result.corporate.profit_before_tax,
     employer_social_charges |-> result.salary.employer_charges,
     employee_social_charges |-> result.salary.employee_charges,
     total_social_charges    |-> result.summary.total_social_charges,
     corporate_tax           |-> result.corporate.corporate_tax,
     income_tax              |-> result.income_tax.tax_on_salary,
     dividend_tax            |-> result.dividends.total_tax,
     vat_collected           |-> result.vat.vat_collected,
     vat_deductible          |-> result.vat.vat_deductible,
     vat_to_pay              |-> result.vat.vat_to_pay,
     total_taxes             |-> result.summary.total_taxes,
     net_income_after_tax    |-> result.summary.net_income,
     effective_tax_rate      |-> result.summary.effective_tax_rate,
     scenario_name           |-> calculation.scenario_name,
     scenario_description    |-> calculation.scenario_description,
     calculation_details     |-> [json |-> result],
     notes                   |-> calculation.notes,
     status                  |-> <<"final">>,
     created_at              |-> now,
     updated_at              |-> now]

\* for field, value in update_dict.items(): setattr(calculation, field, value)
SetAttrs(calculation, update_dict) ==
    [field \in DOMAIN calculation |->
        IF field \in DOMAIN update_dict THEN update_dict[field]
        ELSE calculation[field]]

\* db.commit() of a changed row: the UPDATE is emitted when a column has a new
\* value, and onupdate=datetime.utcnow then sets updated_at.
Flushed(calculation, changed, now) ==
    IF changed = calculation THEN calculation
    ELSE [changed EXCEPT !.updated_at = now]

\* The API answers a request; the clock moves on.
Respond(served, status_code, body) ==
    /\ utcnow < MaxRequests
    /\ utcnow' = utcnow + 1
    /\ request' = served
    /\ response' = [status_code |-> status_code, body |-> body]
    /\ UNCHANGED <<rateTable, op, args, pc, ret, raised, history, thread, company>>

\* response_model=TaxCalculationSchema, on the rows a handler returns: the
\* schema wants a str for status and, as TaxCalculationBase does, amounts >= 0;
\* rows it refuses make the answer a 500, after the handler has committed.
TaxCalculationSchema(row) ==
    /\ row.status # Null
    /\ row.gross_salary >= 0
    /\ row.net_salary >= 0
    /\ row.dividends >= 0
    /\ row.revenue >= 0
    /\ row.expenses >= 0
    /\ row.profit_before_tax >= 0

\* The handler returns rows, which are answered with as body.
Answer(served, rows, body) ==
    IF \A row \in rows : TaxCalculationSchema(row)
    THEN Respond(served, 200, body)
    ELSE Respond(served, 500, "ResponseValidationError")

\* POST /save
SaveCalculation(current_user, calculation) ==
    LET served == [endpoint |-> "save_calculation", user |-> current_user,
                   calculation |-> calculation]
        result == calculate_complete_taxation(calculation.gross_salary,
                      calculation.dividends, calculation.revenue,
                      calculation.expenses, 200)
        db_calculation == TaxCalculationModel(current_user, calculation, result,
                                              next_id, utcnow + 1)
    IN  IF Truthy(calculation.company_id)
           /\ CompanyOf(current_user, calculation.company_id) = {}
        THEN /\ Respond(served, 404, "Company not found")
             /\ UNCHANGED <<tax_calculation, next_id>>
        ELSE \* db.commit(): the INSERT takes the next id; a database that
             \* enforces the foreign key refuses a company_id that is no
             \* company's, one that does not enforce it stores the row.
             /\ next_id' = next_id + 1
             /\ \/ /\ ~ForeignKeyHolds(db_calculation)
                   /\ Respond(served, 500, "IntegrityError")
                   /\ UNCHANGED tax_calculation
                \/ /\ tax_calculation' = tax_calculation \cup {db_calculation}
                   /\ Answer(served, {db_calculation}, db_calculation)

\* GET /
GetCalculations(current_user, skip, limit, company_id) ==
    LET served == [endpoint |-> "get_calculations", user |-> current_user,
                   skip |-> skip, limit |-> limit, company_id |-> company_id]
        query == {c \in tax_calculation : c.user_id = current_user}
        filtered == IF Truthy(company_id)
                    THEN {c \in query : c.company_id = company_id}
                    ELSE query
        count == Min(limit, Max(0, Cardinality(filtered) - skip))
    IN  /\ UNCHANGED <<tax_calculation, next_id>>
        /\ IF Truthy(company_id) /\ CompanyOf(current_user, company_id) = {}
           THEN Respond(served, 404, "Company not found")
           ELSE \* offset(skip).limit(limit) of a query without ORDER BY: the
                \* rows come in an order the database chooses.
                \E calculations \in SUBSET filtered :
                    /\ Cardinality(calculations) = count
                    /\ Answer(served, calculations, calculations)

\* GET /{calculation_id}
GetCalculation(current_user, calculation_id) ==
    LET served == [endpoint |-> "get_calculation", user |-> current_user,
                   calculation_id |-> calculation_id]
        found == CalculationOf(current_user, calculation_id)
    IN  /\ UNCHANGED <<tax_calculation, next_id>>
        /\ IF found = {}
           THEN Respond(served, 404, "Tax calculation not found")
           ELSE Answer(served, found, CHOOSE c \in found : TRUE)

\* PUT /{calculation_id}
UpdateCalculation(current_user, calculation_id, body) ==
    LET served == [endpoint |-> "update_calculation", user |-> current_user,
                   calculation_id |-> calculation_id, update_data |-> body]
        found == CalculationOf(current_user, calculation_id)
        calculation == CHOOSE c \in found : TRUE
        update_dict == TaxCalculationUpdate(body)
        refreshed == Flushed(calculation, SetAttrs(calculation, update_dict),
                             utcnow + 1)
    IN  /\ UNCHANGED next_id
        /\ IF found = {}
           THEN /\ Respond(served, 404, "Tax calculation not found")
                /\ UNCHANGED tax_calculation
           ELSE /\ tax_calculation' =
                       (tax_calculation \ {calculation}) \cup {refreshed}
                /\ Answer(served, {refreshed}, refreshed)

\* DELETE /{calculation_id}
DeleteCalculation(current_user, calculation_id) ==
    LET served == [endpoint |-> "delete_calculation", user |-> current_user,
                   calculation_id |-> calculation_id]
        found == CalculationOf(current_user, calculation_id)
    IN  /\ UNCHANGED next_id
        /\ IF found = {}
           THEN /\ Respond(served, 404, "Tax calculation not found")
                /\ UNCHANGED tax_calculation
           ELSE /\ tax_calculation' = tax_calculation \ found
                /\ Respond(served, 200, "Tax calculation deleted successfully")

\* The bodies of POST /save, valid under TaxCalculationCreate (amounts >= 0):
\* a company_id that is absent, 0, a company's, and no company's.
SaveBodies ==
    {[company_id |-> c, gross_salary |-> Euros(40000),
      dividends |-> Euros(10000), revenue |-> Euros(150000),
      expenses |-> Euros(30000), scenario_name |-> Null,
      scenario_description |-> Null, notes |-> Null] :
         c \in {Null, <<0>>, <<1>>, <<3>>}}
    \cup {[company_id |-> Null, gross_salary |-> Euros(60000),
           dividends |-> 0, revenue |-> Euros(100000),
           expenses |-> Euros(20000), scenario_name |-> <<"base">>,
           scenario_description |-> Null, notes |-> <<"first draft">>]}

\* The bodies of PUT /{calculation_id}: some fields of the schema, a field set
\* to null, no field at all, and fields the schema does not have.
UpdateBodies ==
    {[scenario_name |-> <<"plan B">>],
     [scenario_description |-> <<"after review">>, status |-> <<"archived">>,
      notes |-> <<"checked">>],
     [status |-> Null],
     [gross_salary |-> Euros(1), user_id |-> 2, scenario_name |-> <<"plan C">>],
     [field \in {} |-> Null]}

\* The ids a request names: those the table has given out, and the next one.
CalculationIds == 1..next_id

\* The skip and limit, and the company_id, of GET /.
Pages == {[skip |-> 0, limit |-> 100], [skip |-> 1, limit |-> 1]}
CompanyFilters == {Null, <<0>>, <<1>>}

\* The API is up: the users' companies are registered, and no calculation is
\* stored.  Every handler makes its own FrenchTaxCalculator(), so the rate
\* table is that of __init__ throughout.
InitStore ==
    /\ social_charges_rates = InitSocialChargesRates
    /\ corporate_tax_rates = InitCorporateTaxRates
    /\ income_tax_brackets = InitIncomeTaxBrackets
    /\ vat_rates = InitVatRates
    /\ smic_annual = SMIC_HOURLY * 35 * 52
    /\ pass_annual = PASS_ANNUAL
    /\ op = "none"
    /\ args = << >>
    /\ pc = "requests"
    /\ ret = NoValue
    /\ raised = "none"
    /\ history = << >>
    /\ thread = << >>
    /\ tax_calculation = {}
    /\ company = Companies
    /\ next_id = 1
    /\ utcnow = 0
    /\ request = NoRequest
    /\ response = NoResponse

NextStore ==
    \/ \E u \in Users, b \in SaveBodies : SaveCalculation(u, b)
    \/ \E u \in Users, p \in Pages, c \in CompanyFilters :
           GetCalculations(u, p.skip, p.limit, c)
    \/ \E u \in Users, i \in CalculationIds : GetCalculation(u, i)
    \/ \E u \in Users, i \in CalculationIds, b \in UpdateBodies :
           UpdateCalculation(u, i, b)
    \/ \E u \in Users, i \in CalculationIds : DeleteCalculation(u, i)

SpecStore == InitStore /\ [][NextStore]_vars

----------------------------------------------------------------------------
(* What the claims are stated over *)

Returned(method) == pc = "return" /\ op = method /\ raised = "none"

\* A calculate_complete_taxation call that has ended, one way or the other.
CompleteEnded == pc = "return" /\ op = "calculate_complete_taxation"

\* The progressive income tax of one part, tier by tier: each tier taxes the
\* slice of the income that lies inside it.
Slice(x, lo, hi) == Max(0, Min(x, hi) - lo)
ProgressiveTax(x) ==
    Mul(Slice(x, 0, Euros(11294)), 0)
    + Mul(Slice(x, Euros(11294), Euros(28797)), 110)
    + Mul(Slice(x, Euros(28797), Euros(82341)), 300)
    + Mul(Slice(x, Euros(82341), Euros(177106)), 410)
    + Mul(Max(0, x - Euros(177106)), 450)

\* The dividends a result was taxed on, from the request and the result's
\* own profit after tax, as the claims state them.
CappedRequest == Min(args[2], Max(0, ret.corporate.profit_after_tax))

----------------------------------------------------------------------------
(* C1 *)

\* C1 as stated: every calculate_complete_taxation call returns, and the
\* dividends of its result are min(requested, max(0, profit_after_tax)); when
\* the requested dividends exceed profit_after_tax they are max(0,
\* profit_after_tax) and not the requested value.
C1_AsStated ==
    CompleteEnded =>
        /\ raised = "none"
        /\ ret.dividends.dividends = CappedRequest
        /\ args[2] > ret.corporate.profit_after_tax =>
               /\ ret.dividends.dividends = Max(0, ret.corporate.profit_after_tax)
               /\ ret.dividends.dividends # args[2]

\* C1, amended: every calculate_complete_taxation call returns without an
\* error; the dividends of its result are min(requested, max(0,
\* profit_after_tax)) when the requested dividends are not negative and 0 when
\* they are negative; whenever the requested dividends exceed profit_after_tax
\* the result holds max(0, profit_after_tax), which is not the requested
\* value unless 0 was requested.
C1_DividendCap ==
    CompleteEnded =>
        /\ raised = "none"
        /\ args[2] >= 0 => ret.dividends.dividends = CappedRequest
        /\ args[2] < 0 => ret.dividends.dividends = 0
        /\ args[2] > ret.corporate.profit_after_tax =>
               /\ ret.dividends.dividends = Max(0, ret.corporate.profit_after_tax)
               /\ args[2] # 0 => ret.dividends.dividends # args[2]

\* Scenario 2: 100000 requested out of a profit after tax of 4250.
C1_Witness ==
    /\ Returned("calculate_complete_taxation")
    /\ args = <<Euros(0), Euros(100000), Euros(60000), Euros(55000), 200>>
    /\ ret.corporate.profit_before_tax = Euros(5000)
    /\ ret.corporate.corporate_tax = Euros(750)
    /\ ret.corporate.profit_after_tax = Euros(4250)
    /\ ret.dividends.dividends = Euros(4250)

----------------------------------------------------------------------------
(* C2 *)

\* C2: total_taxes of every result is employer charges + employee charges +
\* corporate tax + the total tax on the capped dividends + the income tax on
\* the salary + the VAT to pay.
C2_TotalTaxes ==
    Returned("calculate_complete_taxation") =>
        LET capped == Max(0, CappedRequest)
        IN  /\ ret.summary.total_taxes =
                   ret.salary.employer_charges + ret.salary.employee_charges
                   + ret.corporate.corporate_tax + ret.dividends.total_tax
                   + ret.income_tax.tax_on_salary + ret.vat.vat_to_pay
            /\ ret.dividends.total_tax = Mul(capped, 172) + Mul(capped, 128)
            /\ ret.salary.employer_charges = Mul(args[1], 420)

\* Scenario 1: 16800 + 8800 + 6550 + 0 + 1846.46 + 20000.
C2_Witness ==
    /\ Returned("calculate_complete_taxation")
    /\ args = <<Euros(40000), Euros(0), Euros(150000), Euros(50000), 200>>
    /\ ret.salary.employer_charges = Euros(16800)
    /\ ret.summary.total_taxes = 5399646

----------------------------------------------------------------------------
(* C3 *)

\* C3: net_income of every result is (net salary - income tax on salary) +
\* net dividends, the income tax being the one-part progressive tax of 0.9 x
\* net salary and the net dividends those of the capped dividends.
C3_NetIncome ==
    Returned("calculate_complete_taxation") =>
        LET capped == Max(0, CappedRequest)
            taxable == Mul(ret.salary.net_salary, 900)
        IN  /\ ret.summary.net_income =
                   (ret.salary.net_salary - ret.income_tax.tax_on_salary)
                   + ret.dividends.net_dividends
            /\ ret.income_tax.taxable_salary = taxable
            /\ ret.income_tax.tax_on_salary =
                   IF taxable > 0 THEN ProgressiveTax(taxable) ELSE 0
            /\ ret.dividends.net_dividends =
                   capped - (Mul(capped, 172) + Mul(capped, 128))

\* A salary of 40000 and 100000 requested out of a profit after tax of 36650:
\* 31200 - 1846.46 + 0.7 x 36650.
C3_Witness ==
    /\ Returned("calculate_complete_taxation")
    /\ args = <<Euros(40000), Euros(100000), Euros(150000), Euros(50000), 200>>
    /\ ret.income_tax.tax_on_salary = 184646
    /\ ret.dividends.net_dividends = Euros(25655)
    /\ ret.summary.net_income = 5500854

----------------------------------------------------------------------------
(* C4 *)

\* C4: effective_tax_rate of every result is total_taxes / revenue when
\* revenue > 0 and exactly 0 otherwise, and nothing is divided by 0.
C4_EffectiveTaxRate ==
    CompleteEnded =>
        /\ raised = "none"
        /\ ret.summary.effective_tax_rate.den # 0
        /\ args[3] > 0 =>
               ret.summary.effective_tax_rate = PyDiv(ret.summary.total_taxes, args[3])
        /\ args[3] <= 0 => ret.summary.effective_tax_rate = PyZero

\* No revenue, and yet taxes: the salary's charges.
C4_Witness ==
    /\ Returned("calculate_complete_taxation")
    /\ args[3] = 0
    /\ ret.summary.total_taxes > 0
    /\ ret.summary.effective_tax_rate = PyZero

----------------------------------------------------------------------------
(* C5 *)

\* The two-bracket corporate tax in closed form: 15% up to 42500, 25% above.
TwoBracketTax(p) ==
    Mul(Min(p, Euros(42500)), 150) + Mul(Max(0, p - Euros(42500)), 250)

\* C5: with the table of __init__, calculate_corporate_tax(p) is 0 for p <= 0
\* and 0.15 x min(p, 42500) + 0.25 x max(0, p - 42500) for p > 0; 42500 is
\* taxed 6375 and 42501 is taxed 6375.25.  The corporate tax of a complete
\* taxation is that of its profit before tax.
C5_CorporateTax ==
    /\ Returned("calculate_corporate_tax") =>
           /\ corporate_tax_rates = InitCorporateTaxRates
           /\ args[1] <= 0 => ret = 0
           /\ args[1] > 0 => ret = TwoBracketTax(args[1])
           /\ args[1] = Euros(42500) => ret = 637500
           /\ args[1] = Euros(42501) => ret = 637525
    /\ Returned("calculate_complete_taxation") =>
           ret.corporate.corporate_tax =
               IF ret.corporate.profit_before_tax <= 0
               THEN 0 ELSE TwoBracketTax(ret.corporate.profit_before_tax)

\* One euro above the first bracket.
C5_Witness ==
    /\ Returned("calculate_corporate_tax")
    /\ args = <<Euros(42501)>>
    /\ ret = 637525

----------------------------------------------------------------------------
(* C6 *)

\* C6: calculate_income_tax(taxable_income, parts) is 0 for taxable_income <= 0
\* and, for taxable_income > 0 and parts > 0, parts times the five-tier
\* progressive tax of taxable_income / parts.
C6_IncomeTax ==
    Returned("calculate_income_tax") =>
        /\ args[1] <= 0 => ret = 0
        /\ (args[1] > 0 /\ args[2] > 0) =>
               ret = args[2] * ProgressiveTax(Quot(args[1], args[2]))

\* 250000 on two parts: 125000 a part, in the fourth tier; 2 x 35478.72.
C6_Witness ==
    /\ Returned("calculate_income_tax")
    /\ args = <<Euros(250000), 2>>
    /\ ret = 7095744

----------------------------------------------------------------------------
(* C7 *)

\* C7: for gross_salary >= 0, employer_charges = 0.42 x gross, employee_charges
\* = 0.22 x gross, net_salary = gross - employee_charges = 0.78 x gross (the
\* two within the rounding of one product, a cent) and total_cost_to_company
\* = gross + employer_charges.
C7_SocialCharges ==
    (Returned("calculate_social_charges_on_salary") /\ args[1] >= 0) =>
        /\ ret.gross_salary = args[1]
        /\ ret.employer_charges = Mul(args[1], 420)
        /\ ret.employee_charges = Mul(args[1], 220)
        /\ ret.net_salary = args[1] - ret.employee_charges
        /\ ret.net_salary - Mul(args[1], 1000 - 220) \in {0, 1}
        /\ args[1] % 100 = 0 => ret.net_salary = Mul(args[1], 1000 - 220)
        /\ ret.total_cost_to_company = args[1] + ret.employer_charges

\* A gross salary of 40000: 16800 and 8800 of charges, 31200 net, 56800 of cost.
C7_Witness ==
    /\ Returned("calculate_social_charges_on_salary")
    /\ args = <<Euros(40000)>>
    /\ ret.employer_charges = Euros(16800)
    /\ ret.employee_charges = Euros(8800)
    /\ ret.net_salary = Euros(31200)
    /\ ret.total_cost_to_company = Euros(56800)

----------------------------------------------------------------------------
(* C8 *)

\* C8: calculate_dividends_taxation(d) returns only zeros for d <= 0, and for
\* d > 0 social_charges = 0.172 x d, income_tax = 0.128 x d, total_tax their
\* sum and net_dividends = d - total_tax.
C8_DividendsTaxation ==
    Returned("calculate_dividends_taxation") =>
        /\ args[1] <= 0 => \A f \in DOMAIN ret : ret[f] = 0
        /\ args[1] > 0 =>
               /\ ret.dividends = args[1]
               /\ ret.social_charges = Mul(args[1], 172)
               /\ ret.income_tax = Mul(args[1], 128)
               /\ ret.total_tax = ret.social_charges + ret.income_tax
               /\ ret.net_dividends = args[1] - ret.total_tax

\* Dividends of 4250: 731 + 544 = 1275 of tax, 2975 net.
C8_Witness ==
    /\ Returned("calculate_dividends_taxation")
    /\ args = <<Euros(4250)>>
    /\ ret.social_charges = Euros(731)
    /\ ret.income_tax = Euros(544)
    /\ ret.total_tax = Euros(1275)
    /\ ret.net_dividends = Euros(2975)

----------------------------------------------------------------------------
(* C9 *)

DividendFields ==
    {"dividends", "social_charges", "income_tax", "total_tax", "net_dividends",
     "effective_rate"}

\* C9: every dividend breakdown, returned by calculate_dividends_taxation or
\* embedded in the result of calculate_complete_taxation, has the same fields,
\* the effective rate among them, whether the dividends are positive or not.
C9_SameFields ==
    /\ Returned("calculate_dividends_taxation") => DOMAIN ret = DividendFields
    /\ Returned("calculate_complete_taxation") =>
           DOMAIN ret.dividends = DividendFields

----------------------------------------------------------------------------
(* C10 *)

\* C10: calculate_vat returns vat_collected = revenue x vat_rate, vat_deductible
\* = expenses x vat_rate and vat_to_pay = max(0, collected - deductible), which
\* is never negative; so does the VAT of a complete taxation.
VatOf(v, revenue, expenses, vat_rate) ==
    /\ v.vat_collected = Mul(revenue, vat_rate)
    /\ v.vat_deductible = Mul(expenses, vat_rate)
    /\ v.vat_to_pay = Max(0, v.vat_collected - v.vat_deductible)
    /\ v.vat_to_pay >= 0

C10_Vat ==
    /\ Returned("calculate_vat") => VatOf(ret, args[1], args[2], args[3])
    /\ Returned("calculate_complete_taxation") =>
           VatOf(ret.vat, args[3], args[4], args[5])

\* Expenses of 200000 against a revenue of 60000: a credit, nothing to pay.
C10_Witness ==
    /\ Returned("calculate_vat")
    /\ args = <<Euros(60000), Euros(200000), 200>>
    /\ ret.vat_collected = Euros(12000)
    /\ ret.vat_deductible = Euros(40000)
    /\ ret.vat_to_pay = 0

----------------------------------------------------------------------------
(* C11 *)

\* C11: in every result of calculate_complete_taxation, profit_before_tax =
\* revenue - expenses - (gross_salary + employer_charges), profit_after_tax =
\* profit_before_tax - corporate_tax, available_for_dividends = max(0,
\* profit_after_tax), and corporate_tax = 0 whenever profit_before_tax <= 0.
C11_CorporateResult ==
    Returned("calculate_complete_taxation") =>
        /\ ret.corporate.profit_before_tax =
               args[3] - args[4] - (args[1] + Mul(args[1], 420))
        /\ ret.corporate.profit_after_tax =
               ret.corporate.profit_before_tax - ret.corporate.corporate_tax
        /\ ret.corporate.available_for_dividends =
               Max(0, ret.corporate.profit_after_tax)
        /\ ret.corporate.profit_before_tax <= 0 => ret.corporate.corporate_tax = 0

\* Scenario 1: 150000 - 50000 - 40000 x 1.42 = 43200, taxed 6550.
C11_Witness ==
    /\ Returned("calculate_complete_taxation")
    /\ args = <<Euros(40000), Euros(0), Euros(150000), Euros(50000), 200>>
    /\ ret.corporate.profit_before_tax = Euros(43200)
    /\ ret.corporate.corporate_tax = Euros(6550)
    /\ ret.corporate.profit_after_tax = Euros(36650)
    /\ ret.corporate.available_for_dividends = Euros(36650)

----------------------------------------------------------------------------
(* The optimizer's claims *)

\* The arguments of an optimize_remuneration call, and the bounds it derives.
OptTarget == args[1]
OptRevenue == args[2]
OptExpense == args[3]
OptMin == IF "min_salary" \in DOMAIN args[4]
          THEN args[4].min_salary ELSE SMIC_HOURLY * 35 * 52
OptMax == IF "max_salary" \in DOMAIN args[4]
          THEN args[4].max_salary ELSE Mul(args[2], 800)

\* The result is the fallback: (min_salary, 0) and its complete taxation.
IsFallback ==
    /\ ret.optimal_gross_salary = OptMin
    /\ ret.optimal_dividends = 0
    /\ ret.full_calculation =
           calculate_complete_taxation(OptMin, 0, OptRevenue, OptExpense, 200)

----------------------------------------------------------------------------
(* C14 *)

\* C14: every result of optimize_remuneration either achieves a net income
\* within 1000 of the target or is exactly the fallback, (min_salary, 0) with
\* the complete taxation of (min_salary, 0, revenue, expenses).
C14_ToleranceOrFallback ==
    Returned("optimize_remuneration") =>
        /\ ret.net_income_achieved = ret.full_calculation.summary.net_income
        /\ \/ Abs(ret.net_income_achieved - OptTarget) < Euros(1000)
           \/ IsFallback

\* A fallback whose salary leaves no profit, and misses the target.
C14_Witness ==
    /\ Returned("optimize_remuneration")
    /\ IsFallback
    /\ ret.full_calculation.corporate.profit_before_tax <= 0
    /\ Abs(ret.net_income_achieved - OptTarget) >= Euros(1000)

----------------------------------------------------------------------------
(* C15 *)

\* The 21 sample points.
SamplePoint(i) == OptMin + (((OptMax - OptMin) * i) \div 20)

\* C15: optimize_remuneration evaluates exactly the 21 salaries min_salary +
\* (max_salary - min_salary) x i / 20, i = 0..20, in that order; the salary it
\* returns is one of them, and lies between min_salary and max_salary
\* whenever min_salary <= max_salary.
C15_SamplePoints ==
    Returned("optimize_remuneration") =>
        /\ OptimizeLoop(OptimizeFrame(OptTarget, OptRevenue, OptExpense,
                                      args[4])).best.sampled
               = [k \in 1..21 |-> SamplePoint(k - 1)]
        /\ \E i \in 0..20 : ret.optimal_gross_salary = SamplePoint(i)
        /\ OptMin <= OptMax =>
               /\ OptMin <= ret.optimal_gross_salary
               /\ ret.optimal_gross_salary <= OptMax

\* A result that is not the first sample: 15000 of [0, 100000].
C15_Witness ==
    /\ Returned("optimize_remuneration")
    /\ args[4] = [min_salary |-> Euros(0), max_salary |-> Euros(100000)]
    /\ ret.optimal_gross_salary = SamplePoint(3)
    /\ ret.optimal_gross_salary = Euros(15000)
    /\ ret.optimal_dividends > 0

----------------------------------------------------------------------------
(* C16 *)

\* C16: with min_salary > max_salary, optimize_remuneration returns the
\* fallback (min_salary, 0) without an error; it never returns a salary
\* below min_salary.
C16_EmptyRange ==
    (pc = "return" /\ op = "optimize_remuneration") =>
        /\ raised = "none"
        /\ ret.optimal_gross_salary >= OptMin
        /\ OptMin > OptMax =>
               /\ ret.optimal_gross_salary = OptMin
               /\ ret.optimal_dividends = 0

----------------------------------------------------------------------------
(* C17 *)

\* C17: the optimal_dividends of every result of optimize_remuneration are the
\* dividends its full calculation was taxed on, and so never exceed max(0,
\* profit_after_tax) at the returned salary.
C17_DividendsWithinProfit ==
    Returned("optimize_remuneration") =>
        /\ ret.optimal_dividends = ret.full_calculation.dividends.dividends
        /\ ret.optimal_dividends
               <= Max(0, ret.full_calculation.corporate.profit_after_tax)
        /\ ret.full_calculation.input.gross_salary = ret.optimal_gross_salary
        /\ ret.full_calculation.input.dividends = ret.optimal_dividends

\* A target just above what the best sample can pay: the search ends at the
\* top of the profit, within 100 of it.
C17_Witness ==
    /\ Returned("optimize_remuneration")
    /\ ret.optimal_dividends > 0
    /\ ret.net_income_achieved < OptTarget
    /\ ret.full_calculation.corporate.profit_after_tax - ret.optimal_dividends
           <= Euros(100)

----------------------------------------------------------------------------
(* C18 *)

\* C18: a negative amount, or a vat_rate outside (0, 1], given to
\* calculate_social_charges_on_salary or calculate_complete_taxation raises
\* InvalidInput; no breakdown is returned.
C18_InvalidInput ==
    /\ (pc = "return" /\ op = "calculate_social_charges_on_salary"
        /\ args[1] < 0) => raised = "InvalidInput"
    /\ (pc = "return" /\ op = "calculate_complete_taxation"
        /\ (\/ \E k \in 1..4 : args[k] < 0
            \/ args[5] <= 0
            \/ args[5] > 1000)) => raised = "InvalidInput"

----------------------------------------------------------------------------
(* C19 *)

\* C19: calculate_income_tax with parts <= 0 and taxable_income > 0 raises
\* InvalidInput: it returns no amount and raises no other error.
C19_InvalidParts ==
    (pc = "return" /\ op = "calculate_income_tax" /\ args[1] > 0 /\ args[2] <= 0)
        => raised = "InvalidInput"

----------------------------------------------------------------------------
(* C20 *)

\* The messages in their order.
RecommendationOrder ==
    <<"salary below SMIC", "salary above 4 PASS", "raise salary to 1 PASS",
      "effective rate above 45%", "high VAT", "undistributed profits">>

\* The result generate_recommendations was called with.
RecommendedResult ==
    calculate_complete_taxation(args[1], args[2], args[3], args[4], 200)

\* The threshold condition of each message, on the fields of the result.
Flagged(message) ==
    LET res == RecommendedResult
        salary == res.input.gross_salary
        dividends == res.input.dividends
        smic == SMIC_HOURLY * 35 * 52
    IN  CASE message = "salary below SMIC" -> salary < smic
          [] message = "salary above 4 PASS" ->
                 salary >= smic /\ salary > 4 * PASS_ANNUAL
          [] message = "raise salary to 1 PASS" ->
                 dividends > 0 /\ salary < PASS_ANNUAL
          [] message = "effective rate above 45%" ->
                 20 * res.summary.effective_tax_rate.num
                     > 9 * res.summary.effective_tax_rate.den
          [] message = "high VAT" ->
                 20 * res.vat.vat_to_pay > 3 * res.input.revenue
          [] message = "undistributed profits" ->
                 res.corporate.available_for_dividends > 2 * dividends

IsFlagged(message) == Flagged(message)

\* C20: generate_recommendations returns exactly the messages whose threshold
\* condition holds, each once, in the order salary flag (below SMIC, else
\* above 4 PASS, never both), salary below 1 PASS with dividends, effective
\* rate above 45%, high VAT, undistributed profits.
C20_Recommendations ==
    Returned("generate_recommendations") =>
        /\ ret = SelectSeq(RecommendationOrder, IsFlagged)
        /\ \A i, j \in 1..Len(ret) : ret[i] = ret[j] => i = j
        /\ ~ (\E i, j \in 1..Len(ret) :
                  ret[i] = "salary below SMIC" /\ ret[j] = "salary above 4 PASS")

\* Four of the messages at once, the salary flag first.
C20_Witness ==
    /\ Returned("generate_recommendations")
    /\ \A k \in 1..4 : args[k] >= 0
    /\ Len(ret) = 4
    /\ ret[1] = "salary below SMIC"
    /\ ret[3] = "high VAT"
    /\ ret[4] = "undistributed profits"

----------------------------------------------------------------------------
(* C12 *)

\* C12: any two calculate_complete_taxation calls of a sequence of calls on
\* one calculator that have the same arguments return the same result,
\* whatever calls were made before and between them.
C12_Pure ==
    \A i, j \in 1..Len(history) :
        (/\ history[i].op = "calculate_complete_taxation"
         /\ history[j].op = "calculate_complete_taxation"
         /\ history[i].args = history[j].args)
            => /\ history[i].raised = "none"
               /\ history[j].raised = "none"
               /\ history[i].ret = history[j].ret

\* The same calculate_complete_taxation call first and third, another
\* method's call between them.
C12_Witness ==
    /\ Len(history) = 3
    /\ history[1].op = "calculate_complete_taxation"
    /\ history[3].op = "calculate_complete_taxation"
    /\ history[1].args = history[3].args
    /\ history[2].op = "optimize_remuneration"
    /\ history[3].ret.summary.total_taxes > 0

----------------------------------------------------------------------------
(* C13 *)

\* What the call of thread t returns when it runs alone.
AloneResult(t) ==
    LET a == thread[t].args
    IN  CASE thread[t].op = "calculate_complete_taxation" ->
                 calculate_complete_taxation(a[1], a[2], a[3], a[4], a[5])
          [] thread[t].op = "optimize_remuneration" ->
                 optimize_remuneration(a[1], a[2], a[3], a[4])
          [] thread[t].op = "generate_recommendations" ->
                 generate_recommendations(
                     calculate_complete_taxation(a[1], a[2], a[3], a[4], 200))

\* C13: however the calls of the threads interleave, the rate table stays as
\* __init__ set it, and every call returns what it returns when run alone.
C13_Reentrant ==
    /\ social_charges_rates = InitSocialChargesRates
    /\ corporate_tax_rates = InitCorporateTaxRates
    /\ income_tax_brackets = InitIncomeTaxBrackets
    /\ vat_rates = InitVatRates
    /\ smic_annual = SMIC_HOURLY * 35 * 52
    /\ pass_annual = PASS_ANNUAL
    /\ \A t \in DOMAIN thread :
           thread[t].pc = "return" => thread[t].ret = AloneResult(t)

\* A calculate_complete_taxation call that began while optimize_remuneration
\* was in its loop in another thread, and returned before that loop ended;
\* the optimizer then returned too.
C13_Witness ==
    /\ DOMAIN thread = Threads
    /\ thread[1].op = "optimize_remuneration"
    /\ thread[1].pc = "return"
    /\ thread[1].ret.optimal_dividends > 0
    /\ thread[2].op = "calculate_complete_taxation"
    /\ thread[2].pc = "return"
    /\ thread[2].began_during = {1}

----------------------------------------------------------------------------
(* C21 *)

\* The step is the serving of a request to endpoint.
Serves(endpoint) == request'.endpoint = endpoint

\* Row new is row old but for the columns named.
SameBut(old, new, columns) ==
    /\ DOMAIN new = DOMAIN old
    /\ \A column \in DOMAIN old \ columns : new[column] = old[column]

\* The table after the step has the rows it had, each changed in no column but
\* those named, and the rows the request does not name not at all.
UpdatesOnly(columns) ==
    /\ {c.id : c \in tax_calculation'} = {c.id : c \in tax_calculation}
    /\ Cardinality(tax_calculation') = Cardinality(tax_calculation)
    /\ \A old \in tax_calculation : \E new \in tax_calculation' :
           /\ new.id = old.id
           /\ SameBut(old, new, columns)
           /\ old.id # request'.calculation_id => new = old

\* C21 as it is stated: update_calculation leaves every stored calculation as
\* it was, but for scenario_name, scenario_description, status and notes of
\* the one it names.
C21_AsStated ==
    [][Serves("update_calculation") => UpdatesOnly(UpdateFields)]_vars

\* C21, amended: update_calculation leaves every stored calculation as it
\* was, but for scenario_name, scenario_description, status, notes and
\* updated_at of the one it names; updated_at changes when and only when one
\* of the four does, and then to the time of the update.
C21_MetadataOnly ==
    [][Serves("update_calculation") =>
          /\ UpdatesOnly(UpdateFields \cup {"updated_at"})
          /\ \A old \in tax_calculation : \A new \in tax_calculation' :
                 new.id = old.id =>
                     IF \E column \in UpdateFields : new[column] # old[column]
                     THEN new.updated_at = utcnow' /\ new.updated_at > old.updated_at
                     ELSE new.updated_at = old.updated_at]_vars

\* The owner has updated one of two stored calculations with a body that also
\* holds gross_salary and user_id: the row took the body's scenario_name and
\* the time of the update, and kept its gross_salary and its user_id.
C21_Witness ==
    /\ request.endpoint = "update_calculation"
    /\ "gross_salary" \in DOMAIN request.update_data
    /\ response.status_code = 200
    /\ response.body \in tax_calculation
    /\ Cardinality(tax_calculation) = 2
    /\ response.body.id = request.calculation_id
    /\ response.body.user_id = request.user
    /\ response.body.user_id # request.update_data.user_id
    /\ response.body.gross_salary # request.update_data.gross_salary
    /\ response.body.scenario_name = request.update_data.scenario_name
    /\ response.body.updated_at > response.body.created_at
    /\ response.body.updated_at = utcnow

----------------------------------------------------------------------------
(* C22 *)

\* The standard progressive tax of profit p on table rates: bracket i taxes,
\* at its rate, the part of p between the bound before it and its own.
RECURSIVE StandardProgressiveTax(_, _, _)
StandardProgressiveTax(rates, i, p) ==
    IF i > Len(rates)
    THEN 0
    ELSE LET lower == IF i = 1 THEN 0 ELSE rates[i - 1][1]
         IN  Mul(Max(0, Min(p, rates[i][1]) - lower), rates[i][2])
             + StandardProgressiveTax(rates, i + 1, p)

\* C22: on every ascending rate table that ends with (inf, rate), of any
\* number of brackets, calculate_corporate_tax(p) is the standard progressive
\* tax of p: each bracket taxes min(remaining profit, bracket width).
C22_BracketWalk ==
    Returned("calculate_corporate_tax") =>
        ret = StandardProgressiveTax(corporate_tax_rates, 1, args[1])

----------------------------------------------------------------------------
(* C23 *)

\* Sample i taken on its own: the loop's variables after iteration i, started
\* from the values they have before the loop.
Candidate(i) ==
    OptimizeIteration(InitialBest(OptMin), i, OptTarget, OptRevenue, OptExpense,
                      OptMin, OptMax)

\* The 21 samples, each taken on its own.
Candidates == [k \in 1..21 |-> Candidate(k - 1)]

\* Of candidates c, the samples whose converged pair is accepted when nothing
\* is held yet.
Qualifying(c) == {k \in DOMAIN c : c[k].best_result # None}

\* Among them, those of the smallest total_taxes.
Cheapest(c) ==
    {k \in Qualifying(c) :
        \A j \in Qualifying(c) : c[k].min_total_tax <= c[j].min_total_tax}

\* The earliest of a set of samples.
Earliest(samples) == CHOOSE k \in samples : \A j \in samples : k <= j

\* C23: optimize_remuneration returns, of the samples whose converged pair is
\* within 1000 of the target, the one of the smallest total_taxes, the
\* earliest sampled on a tie; a sample outside the tolerance is never
\* returned, and without a sample inside it the result is the fallback.
C23_CheapestCandidate ==
    Returned("optimize_remuneration") =>
        LET c == Candidates
            first == Earliest(Cheapest(c))
        IN  /\ \A k \in Qualifying(c) :
                   Abs(c[k].best_result.summary.net_income - OptTarget)
                       < Euros(1000)
            /\ Qualifying(c) = {} => IsFallback
            /\ Qualifying(c) # {} =>
                   /\ ret.optimal_gross_salary = c[first].best_salary
                   /\ ret.optimal_dividends = c[first].best_dividends
                   /\ ret.full_calculation = c[first].best_result
                   /\ \A k \in Qualifying(c) :
                          ret.total_tax_burden <= c[k].min_total_tax

\* Several samples within the tolerance, and one sampled after the first of
\* them returned, its taxes being lower.
C23_Witness ==
    /\ Returned("optimize_remuneration")
    /\ LET c == Candidates
           first == Earliest(Cheapest(c))
       IN  /\ Cardinality(Qualifying(c)) >= 3
           /\ \E k \in Qualifying(c) :
                  /\ k < first
                  /\ c[k].min_total_tax > ret.total_tax_burden

----------------------------------------------------------------------------
(* C24 *)

\* ceil(log2(width / unit)) for width > unit: the least k with
\* unit x 2^k >= width, from k on; 0 for width <= unit.
RECURSIVE CeilLog2(_, _, _)
CeilLog2(width, unit, k) ==
    IF unit * (2 ^ k) >= width THEN k ELSE CeilLog2(width, unit, k + 1)

\* The binary searches of the call, in the order they ran.
SearchesRun ==
    OptimizeLoop(OptimizeFrame(OptTarget, OptRevenue, OptExpense,
                               args[4])).best.searches

\* C24: a call of optimize_remuneration returns after at most 21 binary
\* searches; each ends with high - low <= 100, inside the profit it
\* searched, after at most ceil(log2(available_for_dividends / 100)) steps,
\* and after none when available_for_dividends <= 100.
C24_BoundedSearch ==
    (pc = "return" /\ op = "optimize_remuneration") =>
        LET searches == SearchesRun
        IN  /\ raised = "none"
            /\ Len(searches) <= 21
            /\ \A k \in 1..Len(searches) :
                   /\ searches[k].available > 0
                   /\ 0 <= searches[k].low
                   /\ searches[k].low <= searches[k].high
                   /\ searches[k].high <= searches[k].available
                   /\ searches[k].high - searches[k].low <= Euros(100)
                   /\ searches[k].steps
                          <= CeilLog2(searches[k].available, Euros(100), 0)
                   /\ searches[k].available <= Euros(100)
                          => searches[k].steps = 0

\* A call all of whose 21 samples were searched, one of them in 12 steps.
C24_Witness ==
    /\ Returned("optimize_remuneration")
    /\ LET searches == SearchesRun
       IN  /\ Len(searches) = 21
           /\ \E k \in 1..21 : searches[k].steps = 12

----------------------------------------------------------------------------
(* C25 *)

\* Requested dividends to compare a call with: none, small and large
\* amounts, whole and not, and amounts one and two cents apart.
DividendGrid ==
    {0, 1, 2, 249, 250, 252, Euros(10), Euros(1234) + 56, Euros(4250),
     Euros(5000), Euros(10000), Euros(36650), Euros(50000), Euros(100000)}

\* The result of the call made, with dividends d requested in place of its own.
WithDividends(d) ==
    calculate_complete_taxation(args[1], d, args[3], args[4], args[5])

----------------------------------------------------------------------------
(* C26 *)

\* The complete taxation of sample i with dividends d.
SampleTaxation(i, d) ==
    calculate_complete_taxation(SamplePoint(i), d, OptRevenue, OptExpense, 200)

\* Sample i has a positive profit, and the target lies between its net income
\* without dividends and its net income with all its profit after tax paid.
Attainable(i) ==
    LET none == SampleTaxation(i, 0)
        available == none.corporate.profit_after_tax
    IN  /\ none.corporate.profit_before_tax > 0
        /\ available > 0
        /\ none.summary.net_income <= OptTarget
        /\ OptTarget <= SampleTaxation(i, available).summary.net_income

\* C26: when the target is attainable at a sample of positive profit, the
\* search at that sample ends on dividends whose net income is within 1000
\* of the target, the sample is accepted when taken on its own, and the
\* call does not end on the fallback: it returns an accepted sample.
C26_AttainableFound ==
    Returned("optimize_remuneration") =>
        LET c == Candidates
        IN  \A i \in 0..20 :
                Attainable(i) =>
                    /\ c[i + 1].best_result # None
                    /\ c[i + 1].best_salary = SamplePoint(i)
                    /\ Abs(c[i + 1].best_result.summary.net_income - OptTarget)
                           < Euros(1000)
                    /\ \E k \in Qualifying(c) :
                           ret.full_calculation = c[k].best_result
                    /\ Abs(ret.net_income_achieved - OptTarget) < Euros(1000)

\* A target attainable at some samples and not at others, found with
\* dividends.
C26_Witness ==
    /\ Returned("optimize_remuneration")
    /\ \E i \in 0..20 : Attainable(i)
    /\ \E i \in 0..20 :
           /\ ~ Attainable(i)
           /\ SampleTaxation(i, 0).corporate.profit_after_tax > 0
    /\ ret.optimal_dividends > 0

----------------------------------------------------------------------------
(* C27 *)

\* Sample i is one the loop skips: with its salary paid there is no profit
\* before tax, or none after the corporate tax.
Skipped(i) ==
    \/ SampleTaxation(i, 0).corporate.profit_before_tax <= 0
    \/ SampleTaxation(i, 0).corporate.profit_after_tax <= 0

\* C27: a sample without profit before tax, or without profit after the
\* corporate tax, is not searched and is never accepted; every result that
\* is an accepted sample has profit_before_tax > 0, available_for_dividends
\* > 0 and optimal_dividends > 0.
C27_SkippedNeverBest ==
    Returned("optimize_remuneration") =>
        LET c == Candidates
        IN  /\ \A i \in 0..20 :
                   Skipped(i) => /\ c[i + 1].best_result = None
                                 /\ c[i + 1].searches = << >>
            /\ Qualifying(c) # {} =>
                   /\ ret.full_calculation.corporate.profit_before_tax > 0
                   /\ ret.full_calculation.corporate.available_for_dividends > 0
                   /\ ret.optimal_dividends > 0
                   /\ ~ (\E i \in 0..20 :
                             /\ Skipped(i)
                             /\ ret.optimal_gross_salary = SamplePoint(i))

\* A call with samples skipped and samples accepted, the salary of a skipped
\* one within 1000 of the target by itself.
C27_Witness ==
    /\ Returned("optimize_remuneration")
    /\ Qualifying(Candidates) # {}
    /\ \E i \in 0..20 :
           /\ Skipped(i)
           /\ Abs(SampleTaxation(i, 0).summary.net_income - OptTarget) < Euros(1000)

----------------------------------------------------------------------------
(* C28 *)

\* C28: in every result of calculate_complete_taxation, total_taxes is
\* total_social_charges + total_corporate_tax + total_income_tax + total_vat,
\* where total_social_charges is the salary's charges plus the social charges
\* on the dividends and total_income_tax is the income tax on the salary plus
\* the flat tax on the dividends.
C28_SummaryConsistent ==
    Returned("calculate_complete_taxation") =>
        /\ ret.summary.total_taxes
               = ret.summary.total_social_charges + ret.summary.total_corporate_tax
                 + ret.summary.total_income_tax + ret.summary.total_vat
        /\ ret.summary.total_social_charges
               = ret.salary.employer_charges + ret.salary.employee_charges
                 + ret.dividends.social_charges
        /\ ret.summary.total_income_tax
               = ret.income_tax.tax_on_salary + ret.dividends.income_tax
        /\ ret.summary.total_income_tax = ret.income_tax.total
        /\ ret.summary.total_corporate_tax = ret.corporate.corporate_tax
        /\ ret.summary.total_vat = ret.vat.vat_to_pay

\* A result all of whose components are positive.
C28_Witness ==
    /\ Returned("calculate_complete_taxation")
    /\ ret.salary.employer_charges > 0
    /\ ret.dividends.social_charges > 0
    /\ ret.dividends.income_tax > 0
    /\ ret.income_tax.tax_on_salary > 0
    /\ ret.corporate.corporate_tax > 0
    /\ ret.vat.vat_to_pay > 0
    /\ ret.summary.total_taxes
           = ret.salary.total_social_charges + ret.dividends.total_tax
             + ret.corporate.corporate_tax + ret.income_tax.tax_on_salary
             + ret.vat.vat_to_pay

----------------------------------------------------------------------------
(* C29 *)

\* The amounts are not negative and the VAT rate is in (0, 1].
ValidArguments ==
    /\ \A k \in 1..4 : args[k] >= 0
    /\ args[5] > 0
    /\ args[5] <= 1000

\* C29: with amounts that are not negative and a VAT rate in (0, 1], no
\* amount of the result of calculate_complete_taxation is negative, the
\* profits before and after tax apart; and the corporate tax is below a
\* positive profit before tax.
C29_NonNegative ==
    (Returned("calculate_complete_taxation") /\ ValidArguments) =>
        /\ ret.salary.employer_charges >= 0
        /\ ret.salary.employee_charges >= 0
        /\ ret.salary.total_social_charges >= 0
        /\ ret.salary.net_salary >= 0
        /\ ret.salary.total_cost_to_company >= 0
        /\ ret.corporate.corporate_tax >= 0
        /\ ret.corporate.available_for_dividends >= 0
        /\ ret.dividends.dividends >= 0
        /\ ret.dividends.social_charges >= 0
        /\ ret.dividends.income_tax >= 0
        /\ ret.dividends.total_tax >= 0
        /\ ret.dividends.net_dividends >= 0
        /\ ret.income_tax.taxable_salary >= 0
        /\ ret.income_tax.tax_on_salary >= 0
        /\ ret.income_tax.total >= 0
        /\ ret.vat.vat_collected >= 0
        /\ ret.vat.vat_deductible >= 0
        /\ ret.vat.vat_to_pay >= 0
        /\ ret.summary.total_social_charges >= 0
        /\ ret.summary.total_corporate_tax >= 0
        /\ ret.summary.total_income_tax >= 0
        /\ ret.summary.total_vat >= 0
        /\ ret.summary.total_taxes >= 0
        /\ ret.summary.net_income >= 0
        /\ ret.summary.effective_tax_rate.num >= 0
        /\ ret.summary.effective_tax_rate.den > 0
        /\ ret.corporate.profit_before_tax > 0 =>
               ret.corporate.corporate_tax < ret.corporate.profit_before_tax

\* A loss: the profits before and after tax are negative, nothing else is.
C29_Witness ==
    /\ Returned("calculate_complete_taxation")
    /\ ValidArguments
    /\ ret.corporate.profit_before_tax < 0
    /\ ret.corporate.profit_after_tax < 0
    /\ ret.corporate.corporate_tax = 0
    /\ args[2] > 0
    /\ ret.dividends.dividends = 0
    /\ ret.summary.net_income > 0

----------------------------------------------------------------------------
(* C30 *)

\* The stored calculations that are not the caller's are, after the step, as
\* they were.
OthersUntouched ==
    \A c \in tax_calculation : c.user_id # request'.user => c \in tax_calculation'

\* A request that names a calculation of another user is answered 404.
OthersNotFound ==
    (Serves("get_calculation") \/ Serves("update_calculation")
         \/ Serves("delete_calculation")) =>
        \A c \in tax_calculation :
            (c.id = request'.calculation_id /\ c.user_id # request'.user) =>
                response'.status_code = 404

\* The rows answered with are the caller's.
AnswersOwn ==
    /\ (Serves("get_calculations") /\ response'.status_code = 200) =>
           \A c \in response'.body : c.user_id = request'.user
    /\ ((Serves("get_calculation") \/ Serves("update_calculation")
             \/ Serves("save_calculation")) /\ response'.status_code = 200) =>
           response'.body.user_id = request'.user

\* save_calculation with a company_id that is not a company of the caller is
\* answered 404 and stores nothing.
SaveChecksCompany ==
    (/\ Serves("save_calculation")
     /\ request'.calculation.company_id # Null
     /\ CompanyOf(request'.user, request'.calculation.company_id) = {}) =>
        /\ response'.status_code = 404
        /\ tax_calculation' = tax_calculation

\* C30: whatever requests the users have made, a request to get, update or
\* delete a calculation of another user is answered 404 and leaves it as it
\* was, the list answers with the caller's calculations only, and a save with
\* a company_id that is not a company of the caller is answered 404 and
\* stores nothing.
C30_OwnershipIsolation ==
    [][/\ OthersUntouched
       /\ OthersNotFound
       /\ AnswersOwn
       /\ SaveChecksCompany]_vars

====
